---- MODULE Spec2Model ----
(***************************************************************************)
(* Model of `buildkite-agent pipeline upload`                              *)
(* (src/clicommand/pipeline_upload.go, PipelineUploadCommand.Action).      *)
(*                                                                         *)
(* The Action function is one sequential procedure; `pc` is its position.  *)
(* Every l.Fatal(...) terminates the process: it sets `outcome` to the     *)
(* error kind and moves `pc` to "done".  External collaborators (file      *)
(* reads, os.Stat, git rev-parse, the pipeline parser, the JSON encoder    *)
(* and the HTTP API) answer nondeterministically at the step that calls    *)
(* them.  Strings are sequences of symbols.                                *)
(***************************************************************************)
EXTENDS Naturals, Integers, Sequences, FiniteSets, TLC

VARIABLES
    cfg,            \* PipelineUploadConfig after cliconfig.Load
    stdinReadable,  \* stdin.IsReadable()
    osEnv,          \* os.Environ()
    pc,             \* position in Action
    outcome,        \* "running", a success state, or the fatal error kind
    exitCode,       \* exit status of the process, NoExit while it runs
    fatalSrc,       \* the origin named in the fatal message, "" when none
    input,          \* var input []byte
    filename,       \* var filename string
    exists,         \* exists := []string{} of the discovery block
    readLog,        \* history: the sources read so far, in order
    statCalls,      \* history: number of os.Stat calls on discovery candidates
    environ,        \* environ := env.FromSlice(os.Environ())
    revParse,       \* history: how the `git rev-parse` call went
    result,         \* parsed pipeline (result of PipelineParser.Parse)
    parseCalls,     \* history: number of Parse invocations
    stdout,         \* what has been written to os.Stdout
    redactionRuns,  \* history: number of redaction scans performed
    uuid,           \* uuid := api.NewUUID()
    uuidGen,        \* history: number of UUIDs generated
    attempts,       \* history: number of client.UploadPipeline calls issued
    inFlight,       \* number of UploadPipeline calls that have not returned
    sent,           \* history: the set of distinct requests sent
    err,            \* var err error, as assigned by the retry callback
    breakNow        \* retry.Stats break flag set by s.Break()

vars == <<cfg, stdinReadable, osEnv, pc, outcome, exitCode, fatalSrc, input,
          filename, exists, readLog, statCalls, environ, revParse, result, parseCalls, stdout, redactionRuns,
          uuid, uuidGen, attempts, inFlight, sent, err, breakNow>>

----------------------------------------------------------------------------
(* Bounds of the model *)

\* longest pipeline file content, in symbols
MaxLen == 1

----------------------------------------------------------------------------
(* Program constants *)

\* a larger attempt budget than the one configured
MaximumPlusOne == 61

\* retry.Config{Maximum: 60, ...}
Maximum == 60

\* HTTP status that is never retried
StatusUnprocessable == 422

\* the nine default locations, in priority order
paths ==
    << <<"buildkite.yml">>,
       <<"buildkite.yaml">>,
       <<"buildkite.json">>,
       <<".buildkite", "pipeline.yml">>,
       <<".buildkite", "pipeline.yaml">>,
       <<".buildkite", "pipeline.json">>,
       <<"buildkite", "pipeline.yml">>,
       <<"buildkite", "pipeline.yaml">>,
       <<"buildkite", "pipeline.json">> >>

----------------------------------------------------------------------------
(* Values *)

\* a path given on the command line (path components)
ExplicitPath == <<"ci", "custom.yml">>

SecretValue == <<"a", "a">>
CommitRef   == <<"h">>
\* stdout of `git rev-parse <ref>`: the hash followed by a newline
RevParseOutput == <<"c", "\n">>

\* symbols a pipeline file is made of: a literal character and references
\* to the variables SECRET and BUILDKITE_COMMIT
Symbols == {"a", "$SECRET", "$BUILDKITE_COMMIT"}

RECURSIVE SeqsUpTo(_, _)
SeqsUpTo(S, n) ==
    IF n = 0 THEN {<<>>}
    ELSE LET shorter == SeqsUpTo(S, n - 1)
         IN  shorter \cup {Append(s, x) : s \in shorter, x \in S}

Contents == SeqsUpTo(Symbols, MaxLen)

EnvNames == {"SECRET", "BUILDKITE_COMMIT"}

\* a process environment: the variables that are set, with their values
EnvValue(n) == IF n = "SECRET" THEN SecretValue ELSE CommitRef

Environments == {[n \in D |-> EnvValue(n)] : D \in SUBSET EnvNames}

Configs ==
    [FilePath : {<<>>, ExplicitPath},
     Replace : BOOLEAN,
     Job : {"", "job-1"},
     DryRun : BOOLEAN,
     NoInterpolation : BOOLEAN,
     RedactedVars : {<<>>, <<"BUILDKITE_COMMIT", "SECRET">>},
     AgentAccessToken : {"", "token"}]

\* errors returned by client.UploadPipeline
ErrNil == [kind |-> "nil", StatusCode |-> 0]
ErrResponse(status) == [kind |-> "ErrorResponse", StatusCode |-> status]
ErrTransport == [kind |-> "transport", StatusCode |-> 0]
UploadErrors == {ErrResponse(StatusUnprocessable), ErrResponse(500), ErrTransport}

\* the process has not exited
NoExit == -1

NoResult == [parsed |-> FALSE, steps |-> <<>>]

----------------------------------------------------------------------------
(* Source resolution, lines 135-197 *)

\* filepath.Base / path.Base of a non-empty path: its last component
Base(p) == p[Len(p)]

\* which of the three branches of lines 135/143/151 is taken
SourceKind(c, readable) ==
    IF c.FilePath # <<>> THEN "explicit"
    ELSE IF readable THEN "piped"
    ELSE "discovered"

\* the outcome of ioutil.ReadFile / ioutil.ReadAll: an error or the bytes
ReadResults ==
    {[ok |-> FALSE, data |-> <<>>]} \cup {[ok |-> TRUE, data |-> c] : c \in Contents}

\* lines 167-172: the candidates for which os.Stat succeeds, in list order;
\* fs is the set of indices of the candidates present on disk
Exists(fs) ==
    LET RECURSIVE Collect(_)
        Collect(i) ==
            IF i > Len(paths) THEN <<>>
            ELSE (IF i \in fs THEN <<paths[i]>> ELSE <<>>) \o Collect(i + 1)
    IN  Collect(1)

\* two default files are tolerated before the search is called ambiguous
DiscoveryVerdictOffByOne(existing) ==
    IF Len(existing) > 2 THEN "SourceAmbiguous"
    ELSE IF Len(existing) = 0 THEN "SourceNotFound"
    ELSE "ok"

\* lines 176-180
DiscoveryVerdict(existing) ==
    IF Len(existing) > 1 THEN "SourceAmbiguous"
    ELSE IF Len(existing) = 0 THEN "SourceNotFound"
    ELSE "ok"

\* the length test can never be true
IsEmptyInputNever(in) == Len(in) < 0

\* line 195
IsEmptyInput(in) == Len(in) = 0

----------------------------------------------------------------------------
(* Environment and parsing, lines 199-228 *)

Whitespace == {" ", "\n", "\t"}

\* strings.TrimSpace: drop leading and trailing white space
RECURSIVE TrimSpace(_)
TrimSpace(s) ==
    IF s = <<>> THEN s
    ELSE IF Head(s) \in Whitespace THEN TrimSpace(Tail(s))
    ELSE IF s[Len(s)] \in Whitespace THEN TrimSpace(SubSeq(s, 1, Len(s) - 1))
    ELSE s

\* the error of the command is ignored and its empty output is stored
ResolveCommitIgnoresError(e, gitOk) ==
    IF "BUILDKITE_COMMIT" \in DOMAIN e
    THEN [e EXCEPT !["BUILDKITE_COMMIT"] =
                      IF gitOk THEN TrimSpace(RevParseOutput) ELSE <<>>]
    ELSE e

\* lines 203-212: the environment after the `git rev-parse` step; gitOk says
\* whether the command succeeded
ResolveCommit(e, gitOk) ==
    IF "BUILDKITE_COMMIT" \in DOMAIN e /\ gitOk
    THEN [e EXCEPT !["BUILDKITE_COMMIT"] = TrimSpace(RevParseOutput)]
    ELSE e

\* the name is used as it is, also when it is empty
SrcWithoutDefault(fname) == fname

\* lines 214-217
Src(fname) == IF fname = "" THEN "(stdin)" ELSE fname

\* the name a symbol refers to
VarOf(sym) == IF sym = "$SECRET" THEN "SECRET" ELSE "BUILDKITE_COMMIT"

IsReference(sym) == sym \in {"$SECRET", "$BUILDKITE_COMMIT"}

\* variable interpolation of the parser: a reference becomes the value of
\* the variable, or nothing when the variable is not set
RECURSIVE Interpolate(_, _)
Interpolate(content, e) ==
    IF content = <<>> THEN <<>>
    ELSE LET sym == Head(content)
             expansion ==
                 IF IsReference(sym)
                 THEN (IF VarOf(sym) \in DOMAIN e THEN e[VarOf(sym)] ELSE <<>>)
                 ELSE <<sym>>
         IN  expansion \o Interpolate(Tail(content), e)

\* agent.PipelineParser{Env, Filename, Pipeline, NoInterpolation}.Parse()
\* when it succeeds
Parse(e, fname, content, noInterpolation) ==
    [parsed |-> TRUE,
     steps |-> IF noInterpolation THEN content ELSE Interpolate(content, e)]

----------------------------------------------------------------------------
(* Dry run and redaction, lines 230-270 *)

\* json.Encoder with SetIndent("", "  "): indented JSON and a final newline
EncodeIndented(doc) == <<"{", "\n", " ", " ">> \o doc.steps \o <<"\n", "}", "\n">>

\* result.MarshalJSON(): compact JSON
MarshalJSON(doc) == <<"{">> \o doc.steps \o <<"}">>

\* redaction.GetValuesToRedact: the values of the designated variables
RECURSIVE GetValuesToRedact(_, _)
GetValuesToRedact(names, e) ==
    IF names = <<>> THEN <<>>
    ELSE (IF Head(names) \in DOMAIN e THEN <<e[Head(names)]>> ELSE <<>>)
         \o GetValuesToRedact(Tail(names), e)

\* strings.Contains(s, substr)
Contains(s, substr) ==
    \E i \in 1..(Len(s) + 1) :
        /\ i + Len(substr) - 1 <= Len(s)
        /\ SubSeq(s, i, i + Len(substr) - 1) = substr

\* the wrong flag is read
IsDryRunWrongFlag(c) == c.NoInterpolation

\* the dry run is honoured only when a job is given
IsDryRunNeedsJob(c) == c.DryRun /\ c.Job # ""

\* line 231
IsDryRun(c) == c.DryRun

\* line 244
RedactionActive(c) == Len(c.RedactedVars) > 0

\* strings.HasPrefix is used where strings.Contains is meant
ContainsNeedleAsPrefix(serialisedPipeline, needles) ==
    \E i \in 1..Len(needles) :
        /\ Len(needles[i]) <= Len(serialisedPipeline)
        /\ SubSeq(serialisedPipeline, 1, Len(needles[i])) = needles[i]

\* strings.ContainsAny is used where strings.Contains is meant: one
\* character of a needle is enough
ContainsNeedleAnyChar(serialisedPipeline, needles) ==
    \E i \in 1..Len(needles) : \E j \in 1..Len(needles[i]) :
        Contains(serialisedPipeline, <<needles[i][j]>>)

\* lines 260-263: some needle occurs in the serialised pipeline
ContainsNeedle(serialisedPipeline, needles) ==
    \E i \in 1..Len(needles) : Contains(serialisedPipeline, needles[i])

----------------------------------------------------------------------------
(* Submission, lines 272-311 *)

\* line 273
JobMissing(c) == c.Job = ""

\* the job is tested a second time where the token is meant
TokenMissingChecksJob(c) == c.Job = ""

\* line 278
TokenMissing(c) == c.AgentAccessToken = ""

\* api.NewUUID(): the n-th identifier generated differs from all earlier ones
NewUUID(n) == n + 1

\* the identifier is made anew for every attempt
UploadRequestFreshID(c, id, doc, attempt) ==
    [jobID |-> c.Job, changeID |-> NewUUID(id + attempt), document |-> doc,
     replace |-> c.Replace]

\* the replace flag is sent with the first attempt only
UploadRequestReplaceOnce(c, id, doc, attempt) ==
    [jobID |-> c.Job, changeID |-> id, document |-> doc,
     replace |-> c.Replace /\ attempt = 1]

\* line 292: the request of one attempt
UploadRequest(c, id, doc, attempt) ==
    [jobID |-> c.Job, changeID |-> id, document |-> doc, replace |-> c.Replace]

\* the status code is compared with 400 instead of 422
UnrecoverableWrongStatus(e) ==
    e.kind = "ErrorResponse" /\ e.StatusCode = 400

\* every error response is taken as unrecoverable, whatever its status
UnrecoverableAnyStatus(e) ==
    e.kind = "ErrorResponse"

\* line 297: the error is a 422 response
Unrecoverable(e) ==
    e.kind = "ErrorResponse" /\ e.StatusCode = StatusUnprocessable

\* line 303: what the callback returns to retry.Do
CallbackError(e) == e

\* the error of retry.Do is not looked at
UploadFailedIgnored(e) == FALSE

\* line 307
UploadFailed(e) == e # ErrNil

\* retry.Do after one callback: stop on success, on Break(), or when the
\* attempt budget is used up; otherwise wait and call again
RetryVerdict(e, brk, attempt, max) ==
    IF e = ErrNil THEN "Succeeded"
    ELSE IF brk THEN "FailedPermanent"
    ELSE IF attempt >= max THEN "FailedExhausted"
    ELSE "retry"

----------------------------------------------------------------------------
(* The state after the configuration has been loaded, lines 116-133.       *)
(* cliconfig.Load is an external collaborator: every value of the fields   *)
(* that Action tests itself is taken as possible.                          *)

Init ==
    /\ cfg \in Configs
    /\ stdinReadable \in BOOLEAN
    /\ osEnv \in Environments
    /\ pc = "resolve"
    /\ outcome = "running"
    /\ exitCode = NoExit
    /\ fatalSrc = ""
    /\ input = <<>>
    /\ filename = ""
    /\ exists = <<>>
    /\ readLog = <<>>
    /\ statCalls = 0
    /\ environ = [n \in {} |-> <<>>]
    /\ revParse = "none"
    /\ result = NoResult
    /\ parseCalls = 0
    /\ stdout = <<>>
    /\ redactionRuns = 0
    /\ uuid = 0
    /\ uuidGen = 0
    /\ attempts = 0
    /\ inFlight = 0
    /\ sent = {}
    /\ err = ErrNil
    /\ breakNow = FALSE

configVars == <<cfg, stdinReadable, osEnv>>
sourceVars == <<input, filename, exists, readLog, statCalls>>
prepareVars == <<environ, revParse, result, parseCalls, stdout, redactionRuns>>
submitVars == <<uuid, uuidGen, attempts, inFlight, sent, err, breakNow>>

\* the message is logged but the process is not terminated
FatalWithoutExit(kind) ==
    /\ outcome' = kind
    /\ exitCode' = 1
    /\ UNCHANGED <<pc, fatalSrc>>

\* l.Fatal: print the message and terminate the process
Fatal(kind) ==
    /\ outcome' = kind
    /\ exitCode' = 1
    /\ pc' = "done"
    /\ UNCHANGED fatalSrc

\* l.Fatal with a message that names the origin of the pipeline
FatalNaming(kind, src) ==
    /\ outcome' = kind
    /\ exitCode' = 1
    /\ pc' = "done"
    /\ fatalSrc' = src

\* Action returns: the process exits with status 0
Return(state) ==
    /\ outcome' = state
    /\ exitCode' = 0
    /\ pc' = "done"
    /\ UNCHANGED fatalSrc

\* fall through to the next statement
Goto(label) ==
    /\ pc' = label
    /\ UNCHANGED <<outcome, exitCode, fatalSrc>>

----------------------------------------------------------------------------
(* Actions *)

\* lines 135-142: an explicit path is read
ReadExplicit ==
    /\ pc = "resolve"
    /\ SourceKind(cfg, stdinReadable) = "explicit"
    /\ filename' = Base(cfg.FilePath)
    /\ readLog' = Append(readLog, [kind |-> "explicit", path |-> cfg.FilePath])
    /\ \E r \in ReadResults :
          IF r.ok
          THEN input' = r.data /\ Goto("checkEmpty")
          ELSE UNCHANGED input /\ Fatal("SourceNotFound")
    /\ UNCHANGED <<configVars, exists, statCalls, prepareVars, submitVars>>

\* lines 143-150: standard input is read to its end
ReadStdin ==
    /\ pc = "resolve"
    /\ SourceKind(cfg, stdinReadable) = "piped"
    /\ readLog' = Append(readLog, [kind |-> "piped", path |-> <<>>])
    /\ \E r \in ReadResults :
          IF r.ok
          THEN input' = r.data /\ Goto("checkEmpty")
          ELSE UNCHANGED input /\ Fatal("SourceUnreadable")
    /\ UNCHANGED <<configVars, filename, exists, statCalls, prepareVars, submitVars>>

\* lines 151-192: the default locations are searched; fs is the set of
\* candidates that exist when os.Stat is called
Discover ==
    /\ pc = "resolve"
    /\ SourceKind(cfg, stdinReadable) = "discovered"
    /\ statCalls' = statCalls + Len(paths)
    /\ \E fs \in SUBSET (1..Len(paths)) :
          LET verdict == DiscoveryVerdict(Exists(fs))
          IN  /\ exists' = Exists(fs)
              /\ IF verdict # "ok"
                 THEN /\ Fatal(verdict)
                      /\ UNCHANGED <<input, filename, readLog>>
                 ELSE LET found == Exists(fs)[1] IN
                   /\ filename' = Base(found)
                   /\ readLog' = Append(readLog, [kind |-> "discovered", path |-> found])
                   /\ \E r \in ReadResults :
                         IF r.ok
                         THEN input' = r.data /\ Goto("checkEmpty")
                         ELSE UNCHANGED input /\ Fatal("SourceUnreadable")
    /\ UNCHANGED <<configVars, prepareVars, submitVars>>

\* lines 194-197
CheckEmpty ==
    /\ pc = "checkEmpty"
    /\ IF IsEmptyInput(input) THEN Fatal("SourceEmpty") ELSE Goto("environ")
    /\ UNCHANGED <<configVars, sourceVars, prepareVars, submitVars>>

\* lines 199-212: the environment is loaded and BUILDKITE_COMMIT resolved
LoadEnvironment ==
    /\ pc = "environ"
    /\ IF "BUILDKITE_COMMIT" \in DOMAIN osEnv
       THEN \E gitOk \in BOOLEAN :
               /\ environ' = ResolveCommit(osEnv, gitOk)
               /\ revParse' = IF gitOk THEN "ok" ELSE "failed"
       ELSE /\ environ' = ResolveCommit(osEnv, FALSE)
            /\ UNCHANGED revParse
    /\ Goto("parse")
    /\ UNCHANGED <<configVars, sourceVars, result, parseCalls, stdout,
                   redactionRuns, submitVars>>

\* lines 219-228: the parser is called; it may reject the pipeline
ParsePipeline ==
    /\ pc = "parse"
    /\ parseCalls' = parseCalls + 1
    /\ \E parseOk \in BOOLEAN :
          IF parseOk
          THEN /\ result' = Parse(environ, filename, input, cfg.NoInterpolation)
               /\ Goto("prepared")
          ELSE /\ UNCHANGED result
               /\ FatalNaming("ParseError", Src(filename))
    /\ UNCHANGED <<configVars, sourceVars, environ, revParse, stdout,
                   redactionRuns, submitVars>>

\* lines 230-242: dry run; the encoder may fail to write
DryRun ==
    /\ pc = "prepared"
    /\ IsDryRun(cfg)
    /\ \E encodeOk \in BOOLEAN :
          IF encodeOk
          THEN /\ stdout' = Append(stdout, EncodeIndented(result))
               /\ Return("DryRunExit")
          ELSE /\ UNCHANGED stdout
               /\ Fatal("EncodeError")
    /\ UNCHANGED <<configVars, sourceVars, environ, revParse, result,
                   parseCalls, redactionRuns, submitVars>>

\* the job is checked before the redaction check instead of after it
RedactionCheckAfterJobCheck ==
    /\ pc = "prepared"
    /\ ~IsDryRun(cfg)
    /\ IF JobMissing(cfg)
       THEN /\ Fatal("MissingJobID")
            /\ UNCHANGED redactionRuns
       ELSE IF RedactionActive(cfg)
       THEN /\ redactionRuns' = redactionRuns + 1
            /\ \E marshalOk \in BOOLEAN :
                  IF ~marshalOk
                  THEN FatalNaming("SerializationError", Src(filename))
                  ELSE IF ContainsNeedle(MarshalJSON(result),
                                         GetValuesToRedact(cfg.RedactedVars, environ))
                       THEN FatalNaming("RedactionViolation", Src(filename))
                       ELSE Goto("residual")
       ELSE /\ UNCHANGED redactionRuns
            /\ Goto("residual")
    /\ UNCHANGED <<configVars, sourceVars, environ, revParse, result,
                   parseCalls, stdout, submitVars>>

\* lines 244-264: the redaction check
RedactionCheck ==
    /\ pc = "prepared"
    /\ ~IsDryRun(cfg)
    /\ IF RedactionActive(cfg)
       THEN /\ redactionRuns' = redactionRuns + 1
            /\ \E marshalOk \in BOOLEAN :
                  IF ~marshalOk
                  THEN FatalNaming("SerializationError", Src(filename))
                  ELSE IF ContainsNeedle(MarshalJSON(result),
                                         GetValuesToRedact(cfg.RedactedVars, environ))
                       THEN FatalNaming("RedactionViolation", Src(filename))
                       ELSE Goto("residual")
       ELSE /\ UNCHANGED redactionRuns
            /\ Goto("residual")
    /\ UNCHANGED <<configVars, sourceVars, environ, revParse, result,
                   parseCalls, stdout, submitVars>>

\* lines 266-270: the default locations are checked again with os.Stat.
\* The names `paths` and `exists` of this loop are not those of the discovery
\* block, whose scope ended at line 192: the matches go to a list that
\* nothing reads, and only the os.Stat calls are recorded
ResidualStat ==
    /\ pc = "residual"
    /\ statCalls' = statCalls + Len(paths)
    /\ Goto("checkJob")
    /\ UNCHANGED <<configVars, input, filename, exists, readLog, prepareVars,
                   submitVars>>

\* lines 272-275
CheckJob ==
    /\ pc = "checkJob"
    /\ IF JobMissing(cfg) THEN Fatal("MissingJobID") ELSE Goto("checkToken")
    /\ UNCHANGED <<configVars, sourceVars, prepareVars, submitVars>>

\* lines 277-280
CheckToken ==
    /\ pc = "checkToken"
    /\ IF TokenMissing(cfg) THEN Fatal("MissingAccessToken") ELSE Goto("setup")
    /\ UNCHANGED <<configVars, sourceVars, prepareVars, submitVars>>

\* lines 282-288: the client is created and the UUID generated
Setup ==
    /\ pc = "setup"
    /\ uuid' = NewUUID(uuidGen)
    /\ uuidGen' = uuidGen + 1
    /\ Goto("retry")
    /\ UNCHANGED <<configVars, sourceVars, prepareVars, attempts, inFlight,
                   sent, err, breakNow>>

\* the upload is started without waiting for its response
SubmitWithoutWaiting ==
    /\ pc \in {"retry", "inflight"}
    /\ attempts < Maximum
    /\ attempts' = attempts + 1
    /\ inFlight' = inFlight + 1
    /\ sent' = sent \cup {UploadRequest(cfg, uuid, result, attempts + 1)}
    /\ Goto("inflight")
    /\ UNCHANGED <<configVars, sourceVars, prepareVars, uuid, uuidGen, err,
                   breakNow>>

\* line 292: the callback calls client.UploadPipeline, which blocks
Submit ==
    /\ pc = "retry"
    /\ attempts' = attempts + 1
    /\ inFlight' = inFlight + 1
    /\ sent' = sent \cup {UploadRequest(cfg, uuid, result, attempts + 1)}
    /\ Goto("inflight")
    /\ UNCHANGED <<configVars, sourceVars, prepareVars, uuid, uuidGen, err,
                   breakNow>>

\* lines 292-311: UploadPipeline returns, the callback classifies the error
\* and retry.Do decides whether to call again
Respond ==
    /\ pc = "inflight"
    /\ inFlight' = inFlight - 1
    /\ \E e \in {ErrNil} \cup UploadErrors :
          LET brk == e # ErrNil /\ Unrecoverable(e)
              returned == CallbackError(e)
              verdict == RetryVerdict(returned, brk, attempts, Maximum)
          IN  /\ err' = returned
              /\ breakNow' = brk
              /\ IF verdict = "retry" THEN Goto("retry")
                 ELSE IF UploadFailed(returned) THEN Fatal(verdict)
                 ELSE Return(verdict)
    /\ UNCHANGED <<configVars, sourceVars, prepareVars, uuid, uuidGen,
                   attempts, sent>>

Next ==
    \/ ReadExplicit
    \/ ReadStdin
    \/ Discover
    \/ CheckEmpty
    \/ LoadEnvironment
    \/ ParsePipeline
    \/ DryRun
    \/ RedactionCheck
    \/ ResidualStat
    \/ CheckJob
    \/ CheckToken
    \/ Setup
    \/ Submit
    \/ Respond

Spec == Init /\ [][Next]_vars

\* the runs without --replace and --no-interpolation in an environment
\* that sets SECRET: the flags and the variable have no part in the control
\* flow, and every statement of Action is still reached
FairInit ==
    /\ Init
    /\ ~cfg.Replace
    /\ ~cfg.NoInterpolation
    /\ "SECRET" \in DOMAIN osEnv

\* Action is one thread of straight-line code and every external call
\* returns: a step that can be taken is eventually taken
FairSpec == FairInit /\ [][Next]_vars /\ WF_vars(Next)

----------------------------------------------------------------------------
(* Properties of the retry loop *)

Err422 == ErrResponse(422)

\* C1: the changeID is generated once, before the first attempt, and every
\* request sent by the invocation carries that one value: every request
\* sent so far has the current uuid as its changeID, so the uuid has not
\* changed since the first attempt
C1_ChangeIDStable ==
    /\ uuidGen <= 1
    /\ attempts > 0 => uuidGen = 1
    /\ \A r \in sent : r.changeID = uuid
    /\ Cardinality({r.changeID : r \in sent}) <= 1

\* several attempts have been made, all with the one changeID
C1_Witness ==
    /\ attempts >= 3
    /\ pc = "inflight"
    /\ {r.changeID : r \in sent} = {uuid}

\* C2: a 422 response to any attempt ends the run at once in
\* FailedPermanent, and no attempt follows it
C2_PermanentFailureStops ==
    /\ [](err = Err422 => (outcome = "FailedPermanent" /\ pc = "done" /\ inFlight = 0))
    /\ [][err = Err422 => attempts' = attempts]_vars

\* attempt 1 got a 422: one attempt in total
C2_Witness ==
    /\ err = Err422
    /\ attempts = 1
    /\ outcome = "FailedPermanent"

\* C3: an error other than a 422 response is retried while attempts remain,
\* a success ends the run in Succeeded, and no attempt follows a success
C3_TransientRetriedUntilSuccess ==
    /\ [][pc = "inflight" =>
            /\ attempts' = attempts
            /\ err' = ErrNil => (outcome' = "Succeeded" /\ pc' = "done")
            /\ (err' # ErrNil /\ err' # Err422 /\ attempts < 60)
                   => (pc' = "retry" /\ outcome' = "running")]_vars
    /\ [][pc = "retry" => (attempts' = attempts + 1 /\ pc' = "inflight")]_vars
    /\ [](outcome = "Succeeded" => (err = ErrNil /\ attempts >= 1 /\ pc = "done"))
    /\ [][outcome = "Succeeded" => attempts' = attempts]_vars

\* three attempts failed and the fourth succeeded
C3_Witness ==
    /\ outcome = "Succeeded"
    /\ attempts = 4

\* C4: at most 60 attempts are made, and when the last of them has failed
\* with a retryable error the run has ended in FailedExhausted
C4_AttemptsBounded ==
    /\ attempts <= 60
    /\ (attempts = 60 /\ inFlight = 0 /\ err # ErrNil /\ err # Err422)
          => (outcome = "FailedExhausted" /\ pc = "done")
    /\ outcome = "FailedExhausted" => (attempts = 60 /\ err # ErrNil)
    /\ (outcome = "Succeeded" => err = ErrNil)

\* all sixty attempts failed
C4_Witness ==
    /\ attempts = 60
    /\ outcome = "FailedExhausted"

----------------------------------------------------------------------------
(* Properties of the redaction guard and of the dry run *)

\* the needles and the serialised pipeline of the current state
Needles == GetValuesToRedact(cfg.RedactedVars, environ)

DocHasNeedle ==
    \E i \in 1..Len(Needles) : Contains(MarshalJSON(result), Needles[i])

\* the redaction step is behind: a pipeline was parsed, this is not a dry
\* run, and control has left the statement after the parser
GuardDone == result.parsed /\ ~cfg.DryRun /\ pc # "prepared"

SubmissionOutcomes == {"Succeeded", "FailedPermanent", "FailedExhausted"}

\* C5: with redacted vars configured and a needle in the serialised
\* pipeline the run ends in RedactionViolation without any attempt, and no
\* attempt is made before the scan has run and found nothing
C5_RedactionBlocksUpload ==
    /\ outcome = "RedactionViolation" => (attempts = 0 /\ sent = {} /\ uuidGen = 0)
    /\ (Len(cfg.RedactedVars) > 0 /\ GuardDone /\ DocHasNeedle)
          => (outcome \in {"RedactionViolation", "SerializationError"} /\ attempts = 0)
    /\ (Len(cfg.RedactedVars) > 0 /\ attempts > 0)
          => (redactionRuns = 1 /\ ~DocHasNeedle)

\* a pipeline with a secret in it was refused
C5_Witness ==
    /\ outcome = "RedactionViolation"
    /\ DocHasNeedle
    /\ attempts = 0

\* C6: with redacted vars configured and no needle in the serialised
\* pipeline the guard does not refuse, and a run with a job and a token
\* that has ended has made at least one attempt
C6_NoNeedleProceeds ==
    /\ (Len(cfg.RedactedVars) > 0 /\ GuardDone /\ ~DocHasNeedle)
          => outcome # "RedactionViolation"
    /\ (Len(cfg.RedactedVars) > 0 /\ GuardDone /\ ~DocHasNeedle
           /\ cfg.Job # "" /\ cfg.AgentAccessToken # ""
           /\ pc = "done" /\ outcome # "SerializationError")
          => (attempts >= 1 /\ outcome \in SubmissionOutcomes)

\* there were needles, none was in the pipeline, and it was submitted
C6_Witness ==
    /\ Len(cfg.RedactedVars) > 0
    /\ Len(Needles) = 2
    /\ result.steps # <<>>
    /\ ~DocHasNeedle
    /\ attempts >= 1

\* C7 as stated: a dry run whose pipeline parsed always ends in DryRunExit
\* with the document on standard output
C7_DryRunAlwaysSucceeds ==
    (cfg.DryRun /\ result.parsed /\ pc # "prepared")
        => (outcome = "DryRunExit" /\ stdout = <<EncodeIndented(result)>>
            /\ redactionRuns = 0 /\ attempts = 0)

\* C7: a dry run whose pipeline parsed takes exactly one more step, with no
\* redaction check and no attempt: it ends in DryRunExit with the document
\* on standard output, or fatally when the encoder fails
C7_DryRunStopsAfterOutput ==
    /\ cfg.DryRun => (redactionRuns = 0 /\ attempts = 0 /\ uuidGen = 0)
    /\ (cfg.DryRun /\ result.parsed /\ pc # "prepared")
          => /\ pc = "done"
             /\ \/ outcome = "DryRunExit" /\ stdout = <<EncodeIndented(result)>>
                \/ outcome = "EncodeError" /\ stdout = <<>>
    /\ outcome = "DryRunExit" => (cfg.DryRun /\ result.parsed)

\* a dry run printed a pipeline that holds a secret, and stopped
C7_Witness ==
    /\ outcome = "DryRunExit"
    /\ Len(cfg.RedactedVars) > 0
    /\ DocHasNeedle
    /\ stdout # <<>>

----------------------------------------------------------------------------
(* Properties of source resolution *)

\* C8: when the default locations are searched, the number of existing
\* candidates decides: none is SourceNotFound, two or more is
\* SourceAmbiguous, and in both cases nothing is read, parsed or submitted;
\* exactly one is the file that is read
C8_DiscoveryByCount ==
    (cfg.FilePath = <<>> /\ ~stdinReadable /\ pc # "resolve") =>
        /\ Len(exists) = 0 =>
              (outcome = "SourceNotFound" /\ pc = "done" /\ readLog = <<>>
               /\ parseCalls = 0 /\ attempts = 0)
        /\ Len(exists) >= 2 =>
              (outcome = "SourceAmbiguous" /\ pc = "done" /\ readLog = <<>>
               /\ parseCalls = 0 /\ attempts = 0)
        /\ Len(exists) = 1 =>
              (/\ readLog = <<[kind |-> "discovered", path |-> exists[1]]>>
               /\ filename = exists[1][Len(exists[1])]
               /\ outcome \notin {"SourceNotFound", "SourceAmbiguous"})

\* all nine default files exist
C8_Witness ==
    /\ Len(exists) = 9
    /\ outcome = "SourceAmbiguous"
    /\ readLog = <<>>

\* C9: at most one source is read, of the kind that precedence selects;
\* with an explicit path, or with piped input and no path, no default
\* location is ever checked
C9_OneSourceByPrecedence ==
    /\ Len(readLog) <= 1
    /\ \A i \in 1..Len(readLog) :
          readLog[i].kind = (IF cfg.FilePath # <<>> THEN "explicit"
                             ELSE IF stdinReadable THEN "piped"
                             ELSE "discovered")
    /\ (cfg.FilePath # <<>> \/ stdinReadable) => statCalls = 0

----------------------------------------------------------------------------
(* Properties of the preconditions of the submission *)

\* C10: an empty job or token ends the run in MissingJobID or
\* MissingAccessToken with no attempt and no changeID, and no attempt is
\* ever made with an empty job or token
C10_PreconditionsBeforeAttempt ==
    /\ [](/\ outcome = "MissingJobID"
              => (cfg.Job = "" /\ attempts = 0 /\ uuidGen = 0)
          /\ outcome = "MissingAccessToken"
              => (cfg.AgentAccessToken = "" /\ attempts = 0 /\ uuidGen = 0)
          /\ (attempts > 0 \/ uuidGen > 0 \/ outcome \in SubmissionOutcomes)
              => (cfg.Job # "" /\ cfg.AgentAccessToken # "")
          /\ \A r \in sent : r.jobID # "")
    /\ [][(pc = "checkJob" /\ cfg.Job = "")
             => (outcome' = "MissingJobID" /\ pc' = "done")]_vars
    /\ [][(pc = "checkToken" /\ cfg.AgentAccessToken = "")
             => (outcome' = "MissingAccessToken" /\ pc' = "done")]_vars

\* a run with a job and without a token was stopped before the submission
C10_Witness ==
    /\ outcome = "MissingAccessToken"
    /\ cfg.Job # ""
    /\ attempts = 0

----------------------------------------------------------------------------
(* Properties of the outcome of the command *)

ErrorTaxonomy ==
    {"SourceNotFound", "SourceAmbiguous", "SourceEmpty", "ParseError",
     "RedactionViolation", "MissingJobID", "MissingAccessToken",
     "FailedPermanent", "FailedExhausted"}

\* C11: the exit status is 0 exactly when the run has ended in Succeeded
\* or DryRunExit; every error of the taxonomy ends the run with a status
\* other than 0; a run that exits with 0 has either uploaded the pipeline
\* without error or printed it in a dry run
C11_ExitCodeMatchesOutcome ==
    /\ pc = "done" <=> exitCode # NoExit
    /\ pc = "done" => (exitCode = 0 <=> outcome \in {"Succeeded", "DryRunExit"})
    /\ outcome \in ErrorTaxonomy => (pc = "done" /\ exitCode # 0)
    /\ (exitCode = 0 /\ outcome = "Succeeded") => (err = ErrNil /\ attempts >= 1)
    /\ (exitCode = 0 /\ outcome = "DryRunExit") => (attempts = 0 /\ stdout # <<>>)

\* all attempts failed and the process exited with a status other than 0
C11_Witness ==
    /\ outcome = "FailedExhausted"
    /\ exitCode = 1

\* C12: once the source is resolved no default location is checked with
\* os.Stat any more, and the redaction check runs at most once
C12_NoStatAfterResolution ==
    /\ [](redactionRuns <= 1)
    /\ [][pc # "resolve" => statCalls' = statCalls]_vars

\* C13: empty content after a successful read is fatal with SourceEmpty,
\* whatever the kind of source; the parser is not called and nothing is
\* submitted
C13_EmptySourceIsFatal ==
    /\ [][(pc = "checkEmpty" /\ input = <<>>)
             => (outcome' = "SourceEmpty" /\ pc' = "done")]_vars
    /\ [](outcome = "SourceEmpty"
             => (input = <<>> /\ Len(readLog) = 1 /\ parseCalls = 0
                 /\ attempts = 0 /\ exitCode = 1))
    /\ [](parseCalls > 0 => input # <<>>)

\* piped input that was read and found empty
C13_Witness ==
    /\ outcome = "SourceEmpty"
    /\ Len(readLog) = 1
    /\ readLog[1].kind = "piped"

\* the environment has been loaded and the revision resolved
EnvLoaded == pc = "parse" \/ parseCalls > 0

\* C14: a failed resolution leaves BUILDKITE_COMMIT as it was and the run
\* goes on to the parser; a successful one stores the resolved value; when
\* the variable is not set the resolver is not called and the map is the
\* process environment; the map does not change once the parser has it, so
\* the parser and the redaction guard work on the map after resolution
C14_RevisionResolution ==
    /\ [](~EnvLoaded => (revParse = "none" /\ parseCalls = 0 /\ redactionRuns = 0))
    /\ [](EnvLoaded =>
            /\ revParse = "none" <=> "BUILDKITE_COMMIT" \notin DOMAIN osEnv
            /\ revParse \in {"none", "failed"} => environ = osEnv
            /\ revParse = "ok" =>
                  (/\ DOMAIN environ = DOMAIN osEnv
                   /\ environ["BUILDKITE_COMMIT"] = <<"c">>
                   /\ \A n \in DOMAIN osEnv \ {"BUILDKITE_COMMIT"} :
                         environ[n] = osEnv[n]))
    /\ [](result.parsed =>
            result.steps = IF cfg.NoInterpolation THEN input
                           ELSE Interpolate(input, environ))
    /\ [](outcome = "RedactionViolation" => DocHasNeedle)
    /\ [][pc = "environ" => (pc' = "parse" /\ outcome' = "running")]_vars
    /\ [][EnvLoaded => environ' = environ]_vars

\* the resolution failed and the parser put the original value in
C14_Witness ==
    /\ revParse = "failed"
    /\ result.parsed
    /\ environ["BUILDKITE_COMMIT"] = CommitRef
    /\ result.steps = CommitRef

\* the name of the source that was read, as a message gives it
OriginName ==
    IF readLog[1].kind = "piped" THEN "(stdin)"
    ELSE readLog[1].path[Len(readLog[1].path)]

\* C15: a parse failure is fatal with ParseError and its message names the
\* origin, the base name of the file or "(stdin)"; nothing is written to
\* standard output, no redaction check runs and nothing is submitted
C15_ParseFailureNamesOrigin ==
    /\ [](outcome = "ParseError" =>
            /\ pc = "done" /\ exitCode = 1
            /\ Len(readLog) = 1
            /\ fatalSrc = OriginName
            /\ ~result.parsed
            /\ stdout = <<>>
            /\ redactionRuns = 0
            /\ attempts = 0)
    /\ [][(pc = "parse" /\ ~result'.parsed) => outcome' = "ParseError"]_vars

\* a dry run of piped input that did not parse
C15_Witness ==
    /\ outcome = "ParseError"
    /\ cfg.DryRun
    /\ fatalSrc = "(stdin)"
    /\ stdout = <<>>

----------------------------------------------------------------------------
(* Termination and the order of the steps *)

TerminalOutcomes ==
    {"Succeeded", "FailedPermanent", "FailedExhausted", "DryRunExit",
     "SourceNotFound", "SourceAmbiguous", "SourceUnreadable", "SourceEmpty",
     "ParseError", "EncodeError", "SerializationError", "RedactionViolation",
     "MissingJobID", "MissingAccessToken"}

\* C16: when every external call returns, the run reaches a terminal
\* outcome, and no step is taken once it has
C16_Terminates ==
    /\ <>(pc = "done" /\ outcome \in TerminalOutcomes)
    /\ [](outcome # "running" => pc = "done")
    /\ [][pc # "done"]_vars

\* the run ended after using the whole attempt budget
C16_Witness ==
    /\ pc = "done"
    /\ outcome = "FailedExhausted"
    /\ attempts = 60
    /\ inFlight = 0

\* C17: at most one attempt is in flight; an attempt starts only when the
\* one before it has returned, and the attempts are counted 1, 2, 3, ...
\* by steps of one
C17_AttemptsSequential ==
    /\ [](inFlight \in {0, 1})
    /\ [](inFlight = 1 <=> pc = "inflight")
    /\ [][attempts' # attempts
            => (inFlight = 0 /\ inFlight' = 1 /\ attempts' = attempts + 1)]_vars
    /\ [][inFlight' < inFlight => attempts' = attempts]_vars

\* the third attempt is in flight, alone
C17_Witness ==
    /\ attempts = 3
    /\ inFlight = 1
    /\ err # ErrNil

\* C18: every attempt sends one and the same request, made of the job, the
\* changeID, the parsed document and the replace flag, and the return of
\* an attempt changes neither the document nor the configuration nor the
\* environment
C18_RequestUnchangedAcrossRetries ==
    /\ [](sent \subseteq {[jobID |-> cfg.Job, changeID |-> uuid,
                           document |-> result, replace |-> cfg.Replace]})
    /\ [](attempts > 0 => Cardinality(sent) = 1)
    /\ [][(pc \in {"retry", "inflight"})
            => (UNCHANGED <<cfg, stdinReadable, osEnv, environ, result,
                            input, uuid>>)]_vars

\* a request with the replace flag was sent again after a failure
C18_Witness ==
    /\ attempts >= 2
    /\ err # ErrNil
    /\ cfg.Replace
    /\ Cardinality(sent) = 1

----------------------------------------------------------------------------
(* The order of the checks *)

\* C19 as stated: a dry run without a job or without a token whose
\* pipeline parsed always ends in DryRunExit
C19_DryRunWithoutJobSucceeds ==
    (cfg.DryRun /\ (cfg.Job = "" \/ cfg.AgentAccessToken = "")
        /\ result.parsed /\ pc = "done")
        => outcome = "DryRunExit"

\* C19: in a dry run the job and the token are not looked at: a dry run
\* without a job or without a token whose pipeline parsed ends in
\* DryRunExit, or fatally when the encoder fails, and no dry run ends in
\* MissingJobID or MissingAccessToken
C19_DryRunSkipsPreconditions ==
    /\ [](cfg.DryRun => outcome \notin {"MissingJobID", "MissingAccessToken"})
    /\ []((cfg.DryRun /\ (cfg.Job = "" \/ cfg.AgentAccessToken = "")
              /\ result.parsed /\ pc = "done")
            => outcome \in {"DryRunExit", "EncodeError"})
    /\ [][cfg.DryRun => pc' \notin {"checkJob", "checkToken"}]_vars

\* a dry run with neither job nor token printed the pipeline
C19_Witness ==
    /\ outcome = "DryRunExit"
    /\ cfg.Job = ""
    /\ cfg.AgentAccessToken = ""
    /\ exitCode = 0

SourceErrors ==
    {"SourceNotFound", "SourceAmbiguous", "SourceUnreadable", "SourceEmpty"}

\* the redaction check found nothing to refuse, or was not active
PassedGuard ==
    /\ result.parsed
    /\ ~cfg.DryRun
    /\ Len(cfg.RedactedVars) > 0 => (redactionRuns = 1 /\ ~DocHasNeedle)

\* C20: the first check that fails gives the error: a source error means
\* the parser was not called, a ParseError that the source was read and
\* not empty, a RedactionViolation that the pipeline parsed, MissingJobID
\* that the redaction check passed, MissingAccessToken that there is a job
\* as well; a pipeline with a needle in it and no job is refused with
\* RedactionViolation
C20_FirstFailingCheckWins ==
    /\ outcome \in SourceErrors => (parseCalls = 0 /\ redactionRuns = 0)
    /\ outcome = "ParseError" => (input # <<>> /\ redactionRuns = 0)
    /\ outcome = "RedactionViolation" => (result.parsed /\ attempts = 0)
    /\ outcome = "MissingJobID" => PassedGuard
    /\ outcome = "MissingAccessToken" => (PassedGuard /\ cfg.Job # "")
    /\ (GuardDone /\ Len(cfg.RedactedVars) > 0 /\ DocHasNeedle /\ cfg.Job = "")
          => outcome \in {"RedactionViolation", "SerializationError"}

\* a pipeline with a secret in it was refused although the job is missing
C20_Witness ==
    /\ outcome = "RedactionViolation"
    /\ cfg.Job = ""
    /\ DocHasNeedle

====
